---- MODULE Spec2Model ----
(***************************************************************************)
(* Lease lifecycle and payment reconciliation of the DigiPlot server.      *)
(*                                                                         *)
(* The committed rows of the PostgreSQL tables are the variables units,    *)
(* leases and payments.  Every request handler is a process in one of the  *)
(* slots of Calls; each await of the handler is a step, so handlers        *)
(* interleave exactly where the Node event loop lets them.  A sequelize    *)
(* transaction is the pair (txLease, txUnit) of writes held by the call;   *)
(* they become visible together at commit and vanish at rollback.  Reads   *)
(* that pass no { transaction } option see the committed rows only.        *)
(***************************************************************************)
EXTENDS Integers, Sequences, FiniteSets, TLC

VARIABLES units, leases, payments, gateway, mpesa, calls, now

vars == <<units, leases, payments, gateway, mpesa, calls, now>>

----------------------------------------------------------------------------
(* Bounds *)

MaxLeases == 2
MaxPayments == 2
MaxTime == 2


----------------------------------------------------------------------------
(* Static data: users, units and the property that owns each unit *)

Landlords == {"LL1", "LL2"}
Tenants == {"T1", "T2"}
Admins == {"AD1"}
Users == Landlords \cup Tenants \cup Admins
Units == {"U1", "U2"}

UserRole(u) ==
    IF u \in Landlords THEN "landlord"
    ELSE IF u \in Tenants THEN "tenant" ELSE "admin"

PropertyLandlord(u) == IF u = "U1" THEN "LL1" ELSE "LL2"

UnitStatuses == {"vacant", "occupied", "maintenance", "unavailable"}
LeaseStatuses == {"active", "expired", "terminated", "pending"}

NoDate == 0

\* req.body.endDate of the createLease calls explored: the first instant of
\* the clock, so that the lease's term is over at every later instant.
LeaseEndDate == 1
SuppliedDate == MaxTime + 1
NoReason == "none"

NoLease ==
    [id |-> 0, tenantId |-> "none", unitId |-> "none", landlordId |-> "none",
     status |-> "none", endDate |-> NoDate, moveOutDate |-> NoDate,
     terminationReason |-> NoReason]

NoResp == [code |-> 0, message |-> "none"]

\* Payment.mpesaTransactionId: "TDGP_<time>_<random>" as createPayment
\* generates it (n numbers the generated ids, which do not repeat), or the
\* gateway's receipt number.
NoTransactionId == [kind |-> "none", n |-> 0]
GeneratedId(n) == [kind |-> "TDGP", n |-> n]
ReceiptNumber(n) == [kind |-> "receipt", n |-> n]

\* STKPushResponse.CheckoutRequestID of the n-th request the gateway took.
CheckoutRequestID(n) == [kind |-> "ws_CO", n |-> n]

\* MpesaService.accessToken: empty until the token endpoint has answered;
\* then the token of the answer, which the gateway issued at issuedAt.
NoToken == [token |-> "", issuedAt |-> 0]
AccessToken(t) == [token |-> "access_token", issuedAt |-> t]

\* The cached token is used for 55 minutes, one step of the clock.
TokenLifetime == 1

----------------------------------------------------------------------------
(* Responses of the lease controller *)

RespCreateDenied ==
    [code |-> 403, message |-> "Access denied. Only landlords can create leases."]
RespUnitNotFound == [code |-> 404, message |-> "Unit not found or access denied."]
RespTenantNotFound == [code |-> 404, message |-> "Tenant not found or invalid role."]
RespActiveLeaseExists == [code |-> 400, message |-> "Unit already has an active lease."]
RespLeaseCreated == [code |-> 201, message |-> "Lease created successfully"]
RespCreateFailed == [code |-> 500, message |-> "Failed to create lease"]

RespTerminateDenied ==
    [code |-> 403, message |-> "Access denied. Only landlords can terminate leases."]
RespLeaseNotFound == [code |-> 404, message |-> "Lease not found or access denied."]
RespNotActive == [code |-> 400, message |-> "Only active leases can be terminated."]
RespLeaseTerminated == [code |-> 200, message |-> "Lease terminated successfully"]
RespTerminateFailed == [code |-> 500, message |-> "Failed to terminate lease"]

----------------------------------------------------------------------------
(* A call slot: the handler's arguments, locals, transaction and response *)

IdleCall ==
    [op |-> "idle", pc |-> "idle", ip |-> 0, user |-> "none", tenantId |-> "none",
     unitId |-> "none", leaseId |-> 0, moveOutDate |-> NoDate,
     terminationReason |-> NoReason, lease |-> NoLease, txn |-> "none",
     txLease |-> NoLease, txUnit |-> "none", error |-> "none", resp |-> NoResp,
     paymentMethod |-> "none", phoneNumber |-> "none", payment |-> 0,
     checkoutRequestId |-> 0, success |-> FALSE, transactionId |-> NoTransactionId,
     status |-> "none", notes |-> "none", signature |-> "none"]

\* The server starts on an empty leases and payments table, every unit
\* vacant, with no request in progress.
InitWith(slots) ==
    /\ units = [u \in Units |-> "vacant"]
    /\ leases = <<>>
    /\ payments = <<>>
    /\ gateway = <<>>
    /\ mpesa = [accessToken |-> NoToken, tokenExpiry |-> 0]
    /\ calls = [c \in slots |-> IdleCall]
    /\ now = 1

Slots == {"c1", "c2"}

Init == InitWith(Slots)

Calls == DOMAIN calls

LeaseIds == 1..Len(leases)

----------------------------------------------------------------------------
(* The store: what the statements of a transaction see and wait for *)

OpenTx(c) == calls[c].txn = "open"

\* The partial unique index one_active_lease_per_unit on (unit_id, status)
\* WHERE status = 'active'.
ActiveLeasesOf(u) ==
    {i \in LeaseIds : leases[i].unitId = u /\ leases[i].status = "active"}

\* A row another open transaction has written is locked until that
\* transaction ends.
LeaseRowLocked(c, i) ==
    \E d \in Calls \ {c} : OpenTx(d) /\ calls[d].txLease.id = i /\ i # 0

UnitRowLocked(c, u) ==
    \E d \in Calls \ {c} :
        OpenTx(d) /\ calls[d].txUnit # "none" /\ calls[d].unitId = u

\* An INSERT of an active lease for unit u waits while another open
\* transaction holds an uncommitted index entry for u, or is rewriting the
\* committed row that holds it.
InsertWaits(c, u) ==
    \/ \E d \in Calls \ {c} :
          /\ OpenTx(d)
          /\ calls[d].txLease.id = 0
          /\ calls[d].txLease.unitId = u
          /\ calls[d].txLease.status = "active"
    \/ \E i \in ActiveLeasesOf(u) : LeaseRowLocked(c, i)

\* The table without the index one_active_lease_per_unit.
NoUniqueIndex(u) == FALSE

UniqueViolation(u) == ActiveLeasesOf(u) # {}

\* transaction.commit(): the writes of the transaction become the committed
\* rows, all at once.
\* A new row gets the next unused id (the UUID of the source is opaque).
WriteLease(rows, w) ==
    IF w.status = "none" THEN rows
    ELSE IF w.id = 0 THEN Append(rows, [w EXCEPT !.id = Len(rows) + 1])
    ELSE [rows EXCEPT ![w.id].status = w.status,
                      ![w.id].moveOutDate = w.moveOutDate,
                      ![w.id].terminationReason = w.terminationReason]

CommitLeases(c) == WriteLease(leases, calls[c].txLease)

CommitUnits(c) ==
    IF calls[c].txUnit = "none" THEN units
    ELSE [units EXCEPT ![calls[c].unitId] = calls[c].txUnit]

\* transaction.rollback(): the writes of the transaction are dropped.
RolledBack(call) ==
    [call EXCEPT !.txn = "rollback", !.txLease = NoLease, !.txUnit = "none"]

\* The handler returns: its arguments go out of scope, the response, the
\* transaction object and the lease it read or wrote stay to be inspected.
Finish(call, resp) ==
    [call EXCEPT !.pc = "done", !.ip = 0, !.resp = resp, !.user = "none",
                 !.leaseId = 0, !.moveOutDate = NoDate,
                 !.terminationReason = NoReason, !.paymentMethod = "none",
                 !.phoneNumber = "none", !.signature = "none"]

----------------------------------------------------------------------------
(* createLease *)

\* The statements createLease runs once the unit and the tenant are
\* verified, in program order; tx says whether the statement is given
\* { transaction }.
\* createLease marking the unit occupied first, outside the transaction.
UnitFirstProgram ==
    <<[stmt |-> "updateUnit", tx |-> FALSE],
      [stmt |-> "findExisting", tx |-> FALSE],
      [stmt |-> "insertLease", tx |-> TRUE],
      [stmt |-> "commit", tx |-> TRUE],
      [stmt |-> "fetch", tx |-> FALSE]>>

\* createLease whose Unit.update is not given { transaction }.
UnitOutsideTxProgram ==
    <<[stmt |-> "findExisting", tx |-> FALSE],
      [stmt |-> "insertLease", tx |-> TRUE],
      [stmt |-> "updateUnit", tx |-> FALSE],
      [stmt |-> "commit", tx |-> TRUE],
      [stmt |-> "fetch", tx |-> FALSE]>>

CreateLeaseProgram ==
    <<[stmt |-> "findExisting", tx |-> FALSE],
      [stmt |-> "insertLease", tx |-> TRUE],
      [stmt |-> "updateUnit", tx |-> TRUE],
      [stmt |-> "commit", tx |-> TRUE],
      [stmt |-> "fetch", tx |-> FALSE]>>

At(c, op, stmt) ==
    /\ calls[c].op = op
    /\ calls[c].pc = stmt

Advance(call, program) ==
    [call EXCEPT !.ip = call.ip + 1, !.pc = program[call.ip + 1].stmt]

\* Rows a createLease that has begun may still insert.
LeasesInFlight ==
    Cardinality({c \in Calls : calls[c].op = "createLease" /\ calls[c].pc # "done"})

\* sequelize.transaction(), the role check and the lookups of the unit's
\* owner and of the tenant (rows no handler of the model rewrites).
CreateLeaseBegin(c, user, tenantId, unitId) ==
    /\ calls[c].op = "idle"
    /\ Len(leases) + LeasesInFlight < MaxLeases
    /\ LET call == [IdleCall EXCEPT !.op = "createLease", !.user = user,
                                    !.tenantId = tenantId, !.unitId = unitId,
                                    !.txn = "open"]
       IN  calls' = [calls EXCEPT ![c] =
               IF UserRole(user) # "landlord"
               THEN Finish(call, RespCreateDenied)
               ELSE IF PropertyLandlord(unitId) # user
               THEN Finish(RolledBack(call), RespUnitNotFound)
               ELSE IF tenantId \notin Users \/ UserRole(tenantId) # "tenant"
               THEN Finish(RolledBack(call), RespTenantNotFound)
               ELSE Advance(call, CreateLeaseProgram)]
    /\ UNCHANGED <<units, leases, payments, gateway, now, mpesa>>

\* Lease.findOne({ where: { unitId, status: "active" } })
CreateLeaseFindExisting(c) ==
    /\ At(c, "createLease", "findExisting")
    /\ calls' = [calls EXCEPT ![c] =
           IF ActiveLeasesOf(calls[c].unitId) # {}
           THEN Finish(RolledBack(calls[c]), RespActiveLeaseExists)
           ELSE Advance(calls[c], CreateLeaseProgram)]
    /\ UNCHANGED <<units, leases, payments, gateway, now, mpesa>>

\* The catch block: rollback, then the 500 response.  rollback() of a
\* transaction that is already committed throws, and no response is sent.
CreateLeaseCatch(call, error) ==
    IF call.txn = "open"
    THEN Finish([RolledBack(call) EXCEPT !.error = error], RespCreateFailed)
    ELSE Finish([call EXCEPT !.error = error], NoResp)

NewLease(call) ==
    [id |-> 0, tenantId |-> call.tenantId, unitId |-> call.unitId,
     landlordId |-> call.user, status |-> "active", endDate |-> LeaseEndDate,
     moveOutDate |-> NoDate, terminationReason |-> NoReason]

\* Lease.create({ ..., status: "active" })
CreateLeaseInsert(c) ==
    /\ At(c, "createLease", "insertLease")
    /\ ~InsertWaits(c, calls[c].unitId)
    /\ IF UniqueViolation(calls[c].unitId)
       THEN /\ calls' = [calls EXCEPT ![c] =
                   CreateLeaseCatch(calls[c], "SequelizeUniqueConstraintError")]
            /\ UNCHANGED leases
       ELSE IF CreateLeaseProgram[calls[c].ip].tx
       THEN /\ calls' = [calls EXCEPT ![c] =
                   Advance([calls[c] EXCEPT !.txLease = NewLease(calls[c])],
                           CreateLeaseProgram)]
            /\ UNCHANGED leases
       ELSE /\ leases' = WriteLease(leases, NewLease(calls[c]))
            /\ calls' = [calls EXCEPT ![c] =
                   Advance([calls[c] EXCEPT !.lease = leases'[Len(leases')]],
                           CreateLeaseProgram)]
    /\ UNCHANGED <<units, payments, gateway, now, mpesa>>

\* Unit.update({ status: "occupied" }, { where: { id: unitId } })
CreateLeaseUpdateUnit(c) ==
    /\ At(c, "createLease", "updateUnit")
    /\ ~UnitRowLocked(c, calls[c].unitId)
    /\ IF CreateLeaseProgram[calls[c].ip].tx
       THEN /\ calls' = [calls EXCEPT ![c] =
                   Advance([calls[c] EXCEPT !.txUnit = "occupied"],
                           CreateLeaseProgram)]
            /\ UNCHANGED units
       ELSE /\ calls' = [calls EXCEPT ![c] = Advance(calls[c], CreateLeaseProgram)]
            /\ units' = [units EXCEPT ![calls[c].unitId] = "occupied"]
    /\ UNCHANGED <<leases, payments, gateway, now, mpesa>>

\* transaction.commit()
CreateLeaseCommit(c) ==
    /\ At(c, "createLease", "commit")
    /\ leases' = CommitLeases(c)
    /\ units' = CommitUnits(c)
    /\ calls' = [calls EXCEPT ![c] =
           Advance([calls[c] EXCEPT !.txn = "commit", !.txLease = NoLease,
                                    !.txUnit = "none",
                                    !.lease = IF calls[c].txLease.status = "none"
                                              THEN calls[c].lease
                                              ELSE leases'[Len(leases')]],
                   CreateLeaseProgram)]
    /\ UNCHANGED <<payments, gateway, now, mpesa>>

\* Lease.findByPk(lease.id, ...) and the 201 response
CreateLeaseFetch(c) ==
    /\ At(c, "createLease", "fetch")
    /\ calls' = [calls EXCEPT ![c] = Finish(calls[c], RespLeaseCreated)]
    /\ UNCHANGED <<units, leases, payments, gateway, now, mpesa>>

\* A statement of createLease throws (connection lost, query timeout).
CreateLeaseThrow(c) ==
    /\ calls[c].op = "createLease"
    /\ calls[c].pc \in {"findExisting", "insertLease", "updateUnit", "fetch"}
    /\ calls' = [calls EXCEPT ![c] =
           CreateLeaseCatch(calls[c], "SequelizeDatabaseError")]
    /\ UNCHANGED <<units, leases, payments, gateway, now, mpesa>>

----------------------------------------------------------------------------
(* terminateLease *)

TerminateLeaseProgram ==
    <<[stmt |-> "updateLease", tx |-> TRUE],
      [stmt |-> "updateUnit", tx |-> TRUE],
      [stmt |-> "commit", tx |-> TRUE]>>

\* Lease.findOne({ where: { id } }), whoever the landlord is.
FindLeaseOfAnyLandlord(id, landlordId) ==
    IF id \in LeaseIds THEN leases[id] ELSE NoLease

\* Lease.findOne({ where: { id, landlordId: req.user.id } })
FindLease(id, landlordId) ==
    IF id \in LeaseIds /\ leases[id].landlordId = landlordId
    THEN leases[id] ELSE NoLease

\* lease.update that takes moveOutDate from the body as it is.
TerminatedLeaseNoDefault(lease, moveOutDate, reason, t) ==
    [lease EXCEPT !.status = "terminated",
                  !.moveOutDate = moveOutDate,
                  !.terminationReason = reason]

\* lease.update that writes the wrong member of the status enum.
TerminatedLeasePending(lease, moveOutDate, reason, t) ==
    [lease EXCEPT !.status = "pending",
                  !.moveOutDate = IF moveOutDate # NoDate THEN moveOutDate ELSE t,
                  !.terminationReason = reason]

\* The values lease.update writes: status "terminated", the supplied
\* moveOutDate or else new Date(), and the reason.
TerminatedLease(lease, moveOutDate, reason, t) ==
    [lease EXCEPT !.status = "terminated",
                  !.moveOutDate = IF moveOutDate # NoDate THEN moveOutDate ELSE t,
                  !.terminationReason = reason]

\* terminateLease without its status check.
TerminateRejectsNothing(lease) == FALSE

\* The status check of terminateLease on the lease it has read.
TerminateRejects(lease) == lease.status # "active"

\* sequelize.transaction(), the role check, the lookup of the lease by id
\* and landlord, and the status check.
TerminateLeaseBegin(c, user, leaseId, moveOutDate, reason) ==
    /\ calls[c].op = "idle"
    /\ LET call == [IdleCall EXCEPT !.op = "terminateLease", !.user = user,
                                    !.leaseId = leaseId,
                                    !.moveOutDate = moveOutDate,
                                    !.terminationReason = reason,
                                    !.txn = "open"]
           lease == FindLease(leaseId, user)
       IN  calls' = [calls EXCEPT ![c] =
               IF UserRole(user) # "landlord"
               THEN Finish(call, RespTerminateDenied)
               ELSE IF lease = NoLease
               THEN Finish(RolledBack(call), RespLeaseNotFound)
               ELSE IF TerminateRejects(lease)
               THEN Finish(RolledBack([call EXCEPT !.lease = lease]), RespNotActive)
               ELSE Advance([call EXCEPT !.lease = lease, !.unitId = lease.unitId],
                            TerminateLeaseProgram)]
    /\ UNCHANGED <<units, leases, payments, gateway, now, mpesa>>

\* lease.update({ status: "terminated", moveOutDate, terminationReason })
TerminateLeaseUpdateLease(c) ==
    /\ At(c, "terminateLease", "updateLease")
    /\ ~LeaseRowLocked(c, calls[c].lease.id)
    /\ LET w == TerminatedLease(calls[c].lease, calls[c].moveOutDate,
                                calls[c].terminationReason, now)
       IN  calls' = [calls EXCEPT ![c] =
               Advance([calls[c] EXCEPT !.txLease = w], TerminateLeaseProgram)]
    /\ UNCHANGED <<units, leases, payments, gateway, now, mpesa>>

\* Unit.update({ status: "vacant" }, { where: { id: lease.unitId } })
TerminateLeaseUpdateUnit(c) ==
    /\ At(c, "terminateLease", "updateUnit")
    /\ ~UnitRowLocked(c, calls[c].unitId)
    /\ calls' = [calls EXCEPT ![c] =
           Advance([calls[c] EXCEPT !.txUnit = "vacant"], TerminateLeaseProgram)]
    /\ UNCHANGED <<units, leases, payments, gateway, now, mpesa>>

\* transaction.commit() and the 200 response
TerminateLeaseCommit(c) ==
    /\ At(c, "terminateLease", "commit")
    /\ leases' = CommitLeases(c)
    /\ units' = CommitUnits(c)
    /\ calls' = [calls EXCEPT ![c] =
           Finish([calls[c] EXCEPT !.txn = "commit", !.txLease = NoLease,
                                   !.txUnit = "none"],
                  RespLeaseTerminated)]
    /\ UNCHANGED <<payments, gateway, now, mpesa>>

\* A statement of terminateLease throws: rollback and the 500 response.
TerminateLeaseThrow(c) ==
    /\ calls[c].op = "terminateLease"
    /\ calls[c].pc \in {"updateLease", "updateUnit"}
    /\ calls' = [calls EXCEPT ![c] =
           Finish([RolledBack(calls[c]) EXCEPT !.error = "SequelizeDatabaseError"],
                  RespTerminateFailed)]
    /\ UNCHANGED <<units, leases, payments, gateway, now, mpesa>>

----------------------------------------------------------------------------
(* The environment *)

\* Time passes.
Tick ==
    /\ now < MaxTime
    /\ now' = now + 1
    /\ UNCHANGED <<units, leases, payments, gateway, calls, mpesa>>

\* The response has gone out; the slot serves the next request.
Return(c) ==
    /\ calls[c].pc = "done"
    /\ calls' = [calls EXCEPT ![c] = IdleCall]
    /\ UNCHANGED <<units, leases, payments, gateway, now, mpesa>>

\* Request bodies given to terminateLease: a reason and no date, a date and
\* no reason.
TerminateBodies ==
    {[moveOutDate |-> NoDate, terminationReason |-> "non-renewal"],
     [moveOutDate |-> SuppliedDate, terminationReason |-> NoReason]}

\* Tenant ids given to createLease: a tenant, and a user who is no tenant.
LeaseTenantIds == {"T1", "LL2"}

LeaseNext ==
    \/ \E c \in Calls, user \in Users, tenantId \in LeaseTenantIds, unitId \in Units :
          CreateLeaseBegin(c, user, tenantId, unitId)
    \/ \E c \in Calls : CreateLeaseFindExisting(c)
    \/ \E c \in Calls : CreateLeaseInsert(c)
    \/ \E c \in Calls : CreateLeaseUpdateUnit(c)
    \/ \E c \in Calls : CreateLeaseCommit(c)
    \/ \E c \in Calls : CreateLeaseFetch(c)
    \/ \E c \in Calls : CreateLeaseThrow(c)
    \/ \E c \in Calls, user \in Users, leaseId \in 1..MaxLeases, body \in TerminateBodies :
          TerminateLeaseBegin(c, user, leaseId, body.moveOutDate, body.terminationReason)
    \/ \E c \in Calls : TerminateLeaseUpdateLease(c)
    \/ \E c \in Calls : TerminateLeaseUpdateUnit(c)
    \/ \E c \in Calls : TerminateLeaseCommit(c)
    \/ \E c \in Calls : TerminateLeaseThrow(c)
    \/ \E c \in Calls : Return(c)

SpecLease == Init /\ [][LeaseNext]_vars

----------------------------------------------------------------------------
(* createPayment *)

RespPaymentDenied ==
    [code |-> 403,
     message |-> "Access denied. Only landlords and tenants can create payments."]
RespPaymentNotOwn ==
    [code |-> 403, message |-> "Tenants can only create payments for themselves."]
RespPayTenantNotFound == [code |-> 404, message |-> "Tenant not found."]
RespNoActiveLease ==
    [code |-> 400,
     message |-> "No active lease found for this tenant-unit combination."]
RespPaymentInitiated == [code |-> 201, message |-> "Payment initiated successfully"]
RespPaymentRecorded == [code |-> 201, message |-> "Payment recorded successfully"]
RespMpesaFailed == [code |-> 500, message |-> "Failed to initiate M-Pesa payment"]
RespPaymentFailed == [code |-> 500, message |-> "Failed to create payment"]

PaymentIds == 1..Len(payments)

\* Lease.findOne that looks the lease up by tenant and unit alone.
AnyLeaseOf(tenantId, unitId) ==
    LET found == {i \in LeaseIds : /\ leases[i].tenantId = tenantId
                                   /\ leases[i].unitId = unitId}
    IN  IF found = {} THEN NoLease ELSE leases[CHOOSE i \in found : TRUE]

\* Lease.findOne({ where: { tenantId, unitId, status: "active" } })
CurrentLease(tenantId, unitId) ==
    LET found == {i \in LeaseIds : /\ leases[i].tenantId = tenantId
                                   /\ leases[i].unitId = unitId
                                   /\ leases[i].status = "active"}
    IN  IF found = {} THEN NoLease ELSE leases[CHOOSE i \in found : TRUE]

\* Payment rows a createPayment that has begun may still insert.
PaymentsInFlight ==
    Cardinality({c \in Calls : /\ calls[c].op = "createPayment"
                               /\ calls[c].pc = "insertPayment"})

\* The permission checks, the lookups of tenant, unit and property (rows no
\* handler of the model rewrites) and the lookup of the current lease.
CreatePaymentBegin(c, user, tenantId, unitId, paymentMethod, phoneNumber) ==
    /\ calls[c].op = "idle"
    /\ Len(payments) + PaymentsInFlight < MaxPayments
    /\ LET call == [IdleCall EXCEPT !.op = "createPayment", !.user = user,
                                    !.tenantId = tenantId, !.unitId = unitId,
                                    !.paymentMethod = paymentMethod,
                                    !.phoneNumber = phoneNumber]
           currentLease == CurrentLease(tenantId, unitId)
       IN  calls' = [calls EXCEPT ![c] =
               IF UserRole(user) \notin {"landlord", "tenant"}
               THEN Finish(call, RespPaymentDenied)
               ELSE IF UserRole(user) = "tenant" /\ tenantId # user
               THEN Finish(call, RespPaymentNotOwn)
               ELSE IF UserRole(user) = "landlord" /\ PropertyLandlord(unitId) # user
               THEN Finish(call, RespUnitNotFound)
               ELSE IF tenantId \notin Users \/ UserRole(tenantId) # "tenant"
               THEN Finish(call, RespPayTenantNotFound)
               ELSE IF currentLease = NoLease
               THEN Finish(call, RespNoActiveLease)
               ELSE [call EXCEPT !.lease = currentLease, !.pc = "insertPayment",
                                 !.user = "none"]]
    /\ UNCHANGED <<units, leases, payments, gateway, now, mpesa>>

\* Payment.create({ tenantId, unitId, leaseId: currentLease.id, amount,
\* mpesaTransactionId, status: "pending", notes: description })
NewPayment(call, id, t) ==
    [id |-> id, tenantId |-> call.tenantId, unitId |-> call.unitId,
     leaseId |-> call.lease.id, paymentDate |-> t,
     mpesaTransactionId |-> GeneratedId(id), status |-> "pending",
     notes |-> "description"]

CreatePaymentInsert(c) ==
    /\ At(c, "createPayment", "insertPayment")
    /\ payments' = Append(payments, NewPayment(calls[c], Len(payments) + 1, now))
    /\ calls' = [calls EXCEPT ![c] =
           IF calls[c].paymentMethod = "mpesa" /\ calls[c].phoneNumber # "none"
           THEN [calls[c] EXCEPT !.payment = Len(payments'), !.pc = "stkPush"]
           ELSE Finish([calls[c] EXCEPT !.payment = Len(payments')],
                       RespPaymentRecorded)]
    /\ UNCHANGED <<units, leases, gateway, now, mpesa>>

\* getAccessToken that returns the cached token whatever its expiry.
TokenCached == mpesa.accessToken.token # ""

\* getAccessToken: this.accessToken && Date.now() < this.tokenExpiry
TokenValid == mpesa.accessToken.token # "" /\ now < mpesa.tokenExpiry

\* mpesaService.initiateSTKPush, getAccessToken with no valid token cached:
\* the request to the token endpoint goes out.
CreatePaymentTokenRequest(c) ==
    /\ At(c, "createPayment", "stkPush")
    /\ ~TokenValid
    /\ calls' = [calls EXCEPT ![c] = [calls[c] EXCEPT !.pc = "tokenResponse"]]
    /\ UNCHANGED <<units, leases, payments, gateway, now, mpesa>>

\* The token endpoint answers: the token is cached with its expiry; or the
\* request fails, or carries no token, and initiateSTKPush throws.
CreatePaymentTokenResponse(c) ==
    /\ At(c, "createPayment", "tokenResponse")
    /\ \/ /\ mpesa' = [accessToken |-> AccessToken(now),
                        tokenExpiry |-> now + TokenLifetime]
          /\ calls' = [calls EXCEPT ![c] = [calls[c] EXCEPT !.pc = "pushRequest"]]
       \/ /\ calls' = [calls EXCEPT ![c] =
                 [calls[c] EXCEPT !.error = "Failed to initiate M-Pesa payment",
                                  !.pc = "markFailed"]]
          /\ UNCHANGED mpesa
    /\ UNCHANGED <<units, leases, payments, gateway, now>>

\* mpesaService.initiateSTKPush, the push request, sent with the cached
\* token or with the token just received.  The gateway either takes the
\* request, and numbers it with a new CheckoutRequestID, or the request
\* fails.
CreatePaymentPush(c) ==
    /\ \/ At(c, "createPayment", "stkPush") /\ TokenValid
       \/ At(c, "createPayment", "pushRequest")
    /\ \/ /\ gateway' = Append(gateway, calls[c].payment)
          /\ calls' = [calls EXCEPT ![c] =
                 [calls[c] EXCEPT !.checkoutRequestId = Len(gateway'),
                                  !.pc = "pushResponse"]]
       \/ /\ calls' = [calls EXCEPT ![c] =
                 [calls[c] EXCEPT !.error = "Failed to initiate M-Pesa payment",
                                  !.pc = "markFailed"]]
          /\ UNCHANGED gateway
    /\ UNCHANGED <<units, leases, payments, now, mpesa>>

\* The gateway's answer reaches the handler (201), or is lost on the way.
CreatePaymentPushResponse(c) ==
    /\ At(c, "createPayment", "pushResponse")
    /\ \/ calls' = [calls EXCEPT ![c] = Finish(calls[c], RespPaymentInitiated)]
       \/ calls' = [calls EXCEPT ![c] =
              [calls[c] EXCEPT !.error = "Failed to initiate M-Pesa payment",
                               !.pc = "markFailed"]]
    /\ UNCHANGED <<units, leases, payments, gateway, now, mpesa>>

\* The catch block that leaves the row as it is.
DanglingPayment(row) == row

\* { status: "failed", notes: "M-Pesa initiation failed: ..." }
FailedPayment(row) ==
    [row EXCEPT !.status = "failed", !.notes = "M-Pesa initiation failed"]

\* payment.update({ status: "failed", notes: "M-Pesa initiation failed: ..." })
CreatePaymentMarkFailed(c) ==
    /\ At(c, "createPayment", "markFailed")
    /\ payments' = [payments EXCEPT ![calls[c].payment] = FailedPayment(@)]
    /\ calls' = [calls EXCEPT ![c] = Finish(calls[c], RespMpesaFailed)]
    /\ UNCHANGED <<units, leases, gateway, now, mpesa>>

\* A statement of createPayment throws: the outer catch answers 500.
CreatePaymentThrow(c) ==
    /\ calls[c].op = "createPayment"
    /\ calls[c].pc \in {"insertPayment", "markFailed"}
    /\ calls' = [calls EXCEPT ![c] =
           Finish([calls[c] EXCEPT !.error = "SequelizeDatabaseError"],
                  RespPaymentFailed)]
    /\ UNCHANGED <<units, leases, payments, gateway, now, mpesa>>

----------------------------------------------------------------------------
(* handleMpesaCallback *)

RespCallbackAck == [code |-> 200, message |-> "Success"]
RespInvalidSignature == [code |-> 400, message |-> "Invalid signature"]

\* mpesaService.validateCallback: with no MPESA_WEBHOOK_SECRET every
\* callback passes; otherwise the header must equal the HMAC of the body.
ValidateCallback(secretConfigured, providedSignature) ==
    IF ~secretConfigured THEN TRUE
    ELSE IF providedSignature = "none" THEN FALSE
    ELSE providedSignature = "hmac"

\* mpesaService.processCallback: success and the MpesaReceiptNumber.
ProcessCallback(resultCode, receipt) ==
    IF resultCode # 0
    THEN [success |-> FALSE, transactionId |-> NoTransactionId]
    ELSE [success |-> TRUE, transactionId |-> receipt]

\* Payment.findAll({ where: { status: "pending", mpesaTransactionId like
\* "TDGP_%" }, order: [["paymentDate", "DESC"]], limit: 1 }): the rows that
\* may come first; rows of one paymentDate come in either order.
LatestPending ==
    LET pending == {i \in PaymentIds : /\ payments[i].status = "pending"
                                       /\ payments[i].mpesaTransactionId.kind = "TDGP"}
    IN  {i \in pending :
            \A j \in pending : payments[j].paymentDate <= payments[i].paymentDate}

\* The signature check, the extraction of the result and the lookup of the
\* pending payment.  The gateway calls back about a request it has taken,
\* with the receipt number of that request.
CallbackBegin(c, checkoutRequestId, resultCode, secretConfigured, signature) ==
    /\ calls[c].op = "idle"
    /\ checkoutRequestId \in 1..Len(gateway)
    /\ LET call == [IdleCall EXCEPT !.op = "handleMpesaCallback",
                                    !.checkoutRequestId = checkoutRequestId,
                                    !.signature = signature]
           result == ProcessCallback(resultCode, ReceiptNumber(checkoutRequestId))
       IN  IF ~ValidateCallback(secretConfigured, signature)
           THEN calls' = [calls EXCEPT ![c] = Finish(call, RespInvalidSignature)]
           ELSE IF result.success /\ result.transactionId # NoTransactionId
           THEN IF LatestPending # {}
                THEN \E i \in LatestPending :
                        calls' = [calls EXCEPT ![c] =
                            [call EXCEPT !.success = TRUE,
                                         !.transactionId = result.transactionId,
                                         !.payment = i, !.pc = "updatePayment"]]
                ELSE calls' = [calls EXCEPT ![c] =
                        Finish([call EXCEPT !.success = TRUE,
                                            !.transactionId = result.transactionId],
                               RespCallbackAck)]
           ELSE calls' = [calls EXCEPT ![c] = Finish(call, RespCallbackAck)]
    /\ UNCHANGED <<units, leases, payments, gateway, now, mpesa>>

\* payments.mpesa_transaction_id without its unique constraint.
NoUniqueTransactionId(i, transactionId) == FALSE

\* The unique constraint on payments.mpesa_transaction_id.
TransactionIdTaken(i, transactionId) ==
    \E j \in PaymentIds \ {i} : payments[j].mpesaTransactionId = transactionId

\* The update that marks the row successful and drops the receipt number.
FinalizedPaymentNoReceipt(row, transactionId) ==
    [row EXCEPT !.status = "successful", !.notes = "M-Pesa payment completed"]

\* { status: "successful", mpesaTransactionId: callbackResult.transactionId,
\*   notes: "M-Pesa payment completed. Receipt: ..." }
FinalizedPayment(row, transactionId) ==
    [row EXCEPT !.status = "successful", !.mpesaTransactionId = transactionId,
                !.notes = "M-Pesa payment completed"]

\* payment.update({ status: "successful", mpesaTransactionId, notes }); a
\* unique violation lands in the catch block, which acknowledges as well.
CallbackUpdate(c) ==
    /\ At(c, "handleMpesaCallback", "updatePayment")
    /\ IF TransactionIdTaken(calls[c].payment, calls[c].transactionId)
       THEN /\ calls' = [calls EXCEPT ![c] =
                   Finish([calls[c] EXCEPT !.error = "SequelizeUniqueConstraintError"],
                          RespCallbackAck)]
            /\ UNCHANGED payments
       ELSE /\ payments' = [payments EXCEPT ![calls[c].payment] =
                   FinalizedPayment(@, calls[c].transactionId)]
            /\ calls' = [calls EXCEPT ![c] = Finish(calls[c], RespCallbackAck)]
    /\ UNCHANGED <<units, leases, gateway, now, mpesa>>

----------------------------------------------------------------------------
(* updatePaymentStatus *)

RespStatusDenied ==
    [code |-> 403,
     message |-> "Access denied. Only landlords can update payment status."]
RespPaymentNotFound == [code |-> 404, message |-> "Payment not found or access denied."]
RespStatusUpdated == [code |-> 200, message |-> "Payment status updated successfully"]

\* Payment.findOne({ where: { id }, include: unit, property of landlordId }).
\* The calls explored are those of the unit's own landlord and of users
\* who are no landlords.
FindPayment(id, landlordId) ==
    IF id \in PaymentIds /\ PropertyLandlord(payments[id].unitId) = landlordId
    THEN id ELSE 0

UpdatePaymentStatusBegin(c, user, id, status, notes) ==
    /\ calls[c].op = "idle"
    /\ LET call == [IdleCall EXCEPT !.op = "updatePaymentStatus", !.user = user,
                                    !.status = status, !.notes = notes]
       IN  calls' = [calls EXCEPT ![c] =
               IF UserRole(user) # "landlord"
               THEN Finish(call, RespStatusDenied)
               ELSE IF FindPayment(id, user) = 0
               THEN Finish(call, RespPaymentNotFound)
               ELSE [call EXCEPT !.payment = id, !.pc = "updatePayment"]]
    /\ UNCHANGED <<units, leases, payments, gateway, now, mpesa>>

\* if (status) updateData.status = status; if (notes) updateData.notes =
\* notes; payment.update(updateData)
UpdatedPayment(row, status, notes) ==
    [row EXCEPT !.status = IF status # "none" THEN status ELSE @,
                !.notes = IF notes # "none" THEN notes ELSE @]

UpdatePaymentStatusUpdate(c) ==
    /\ At(c, "updatePaymentStatus", "updatePayment")
    /\ payments' = [payments EXCEPT ![calls[c].payment] =
           UpdatedPayment(@, calls[c].status, calls[c].notes)]
    /\ calls' = [calls EXCEPT ![c] = Finish(calls[c], RespStatusUpdated)]
    /\ UNCHANGED <<units, leases, gateway, now, mpesa>>

----------------------------------------------------------------------------
(* Leases and payments together *)

PaymentBodies ==
    {[paymentMethod |-> "mpesa", phoneNumber |-> "254700000000"],
     [paymentMethod |-> "cash", phoneNumber |-> "none"]}

ResultCodes == {0, 1032}

Signatures == {"none", "hmac", "forged"}

\* Leases made and ended on unit U1 by its landlord, and payments recorded
\* for any tenant and unit by any user, without the gateway.
PayNext ==
    \/ \E c \in Calls : CreateLeaseBegin(c, "LL1", "T1", "U1")
    \/ \E c \in Calls : CreateLeaseFindExisting(c)
    \/ \E c \in Calls : CreateLeaseInsert(c)
    \/ \E c \in Calls : CreateLeaseUpdateUnit(c)
    \/ \E c \in Calls : CreateLeaseCommit(c)
    \/ \E c \in Calls : CreateLeaseFetch(c)
    \/ \E c \in Calls, leaseId \in 1..MaxLeases :
          TerminateLeaseBegin(c, "LL1", leaseId, NoDate, "non-renewal")
    \/ \E c \in Calls : TerminateLeaseUpdateLease(c)
    \/ \E c \in Calls : TerminateLeaseUpdateUnit(c)
    \/ \E c \in Calls : TerminateLeaseCommit(c)
    \/ \E c \in Calls, user \in Users, tenantId \in Tenants, unitId \in Units :
          CreatePaymentBegin(c, user, tenantId, unitId, "cash", "none")
    \/ \E c \in Calls : CreatePaymentInsert(c)
    \/ \E c \in Calls : CreatePaymentThrow(c)
    \/ \E c \in Calls : Return(c)

SpecPay == Init /\ [][PayNext]_vars

\* One lease on unit U1, the payments of its tenant, and the gateway's
\* callbacks.
CallbackNext ==
    \/ \E c \in Calls : CreateLeaseBegin(c, "LL1", "T1", "U1")
    \/ \E c \in Calls : CreateLeaseFindExisting(c)
    \/ \E c \in Calls : CreateLeaseInsert(c)
    \/ \E c \in Calls : CreateLeaseUpdateUnit(c)
    \/ \E c \in Calls : CreateLeaseCommit(c)
    \/ \E c \in Calls : CreateLeaseFetch(c)
    \/ \E c \in Calls, body \in PaymentBodies :
          CreatePaymentBegin(c, "T1", "T1", "U1", body.paymentMethod,
                             body.phoneNumber)
    \/ \E c \in Calls : CreatePaymentInsert(c)
    \/ \E c \in Calls : CreatePaymentTokenRequest(c)
    \/ \E c \in Calls : CreatePaymentTokenResponse(c)
    \/ \E c \in Calls : CreatePaymentPush(c)
    \/ \E c \in Calls : CreatePaymentPushResponse(c)
    \/ \E c \in Calls : CreatePaymentMarkFailed(c)
    \/ \E c \in Calls, checkoutRequestId \in 1..MaxPayments,
          resultCode \in ResultCodes, secretConfigured \in BOOLEAN,
          signature \in Signatures :
          CallbackBegin(c, checkoutRequestId, resultCode, secretConfigured, signature)
    \/ \E c \in Calls : CallbackUpdate(c)
    \/ \E c \in Calls : Return(c)
    \/ Tick

SpecCallback == Init /\ [][CallbackNext]_vars

\* One lease on unit U1, the M-Pesa payments of its tenant, and the
\* gateway's signed callbacks, at one instant of the clock: payments of one
\* paymentDate come out of the handler's query in either order.
GatewayNext ==
    \/ \E c \in Calls : CreateLeaseBegin(c, "LL1", "T1", "U1")
    \/ \E c \in Calls : CreateLeaseFindExisting(c)
    \/ \E c \in Calls : CreateLeaseInsert(c)
    \/ \E c \in Calls : CreateLeaseUpdateUnit(c)
    \/ \E c \in Calls : CreateLeaseCommit(c)
    \/ \E c \in Calls : CreateLeaseFetch(c)
    \/ \E c \in Calls :
          CreatePaymentBegin(c, "T1", "T1", "U1", "mpesa", "254700000000")
    \/ \E c \in Calls : CreatePaymentInsert(c)
    \/ \E c \in Calls : CreatePaymentTokenRequest(c)
    \/ \E c \in Calls : CreatePaymentTokenResponse(c)
    \/ \E c \in Calls : CreatePaymentPush(c)
    \/ \E c \in Calls : CreatePaymentPushResponse(c)
    \/ \E c \in Calls : CreatePaymentMarkFailed(c)
    \/ \E c \in Calls, checkoutRequestId \in 1..MaxPayments,
          resultCode \in ResultCodes :
          CallbackBegin(c, checkoutRequestId, resultCode, TRUE, "hmac")
    \/ \E c \in Calls : CallbackUpdate(c)
    \/ \E c \in Calls : Return(c)

SpecGateway == Init /\ [][GatewayNext]_vars

\* Request bodies given to updatePaymentStatus.
StatusBodies ==
    {[status |-> "failed", notes |-> "none"],
     [status |-> "successful", notes |-> "receipt seen"],
     [status |-> "none", notes |-> "receipt seen"]}

\* One lease on unit U1, the cash payments of its tenant, and the landlord
\* and the tenant setting the status of a payment.
StatusNext ==
    \/ \E c \in Calls : CreateLeaseBegin(c, "LL1", "T1", "U1")
    \/ \E c \in Calls : CreateLeaseFindExisting(c)
    \/ \E c \in Calls : CreateLeaseInsert(c)
    \/ \E c \in Calls : CreateLeaseUpdateUnit(c)
    \/ \E c \in Calls : CreateLeaseCommit(c)
    \/ \E c \in Calls : CreateLeaseFetch(c)
    \/ \E c \in Calls : CreatePaymentBegin(c, "T1", "T1", "U1", "cash", "none")
    \/ \E c \in Calls : CreatePaymentInsert(c)
    \/ \E c \in Calls, user \in {"LL1", "T1"}, id \in 1..MaxPayments,
          body \in StatusBodies :
          UpdatePaymentStatusBegin(c, user, id, body.status, body.notes)
    \/ \E c \in Calls : UpdatePaymentStatusUpdate(c)
    \/ \E c \in Calls : Return(c)

SpecStatus == Init /\ [][StatusNext]_vars

\* Leases made and ended on unit U1 by its landlord while time passes.
ExpiryNext ==
    \/ \E c \in Calls : CreateLeaseBegin(c, "LL1", "T1", "U1")
    \/ \E c \in Calls : CreateLeaseFindExisting(c)
    \/ \E c \in Calls : CreateLeaseInsert(c)
    \/ \E c \in Calls : CreateLeaseUpdateUnit(c)
    \/ \E c \in Calls : CreateLeaseCommit(c)
    \/ \E c \in Calls : CreateLeaseFetch(c)
    \/ \E c \in Calls, leaseId \in 1..MaxLeases :
          TerminateLeaseBegin(c, "LL1", leaseId, NoDate, "non-renewal")
    \/ \E c \in Calls : TerminateLeaseUpdateLease(c)
    \/ \E c \in Calls : TerminateLeaseUpdateUnit(c)
    \/ \E c \in Calls : TerminateLeaseCommit(c)
    \/ \E c \in Calls : Return(c)
    \/ Tick

\* The steps a handler takes by itself once its request has come in.
LeaseHandlerStep(c) ==
    \/ CreateLeaseFindExisting(c)
    \/ CreateLeaseInsert(c)
    \/ CreateLeaseUpdateUnit(c)
    \/ CreateLeaseCommit(c)
    \/ CreateLeaseFetch(c)
    \/ TerminateLeaseUpdateLease(c)
    \/ TerminateLeaseUpdateUnit(c)
    \/ TerminateLeaseCommit(c)
    \/ Return(c)

\* Time goes on and every handler that has begun runs to its end; nobody
\* is bound to send a request.
SpecExpiry ==
    /\ Init
    /\ [][ExpiryNext]_vars
    /\ WF_vars(Tick)
    /\ \A c \in Slots : WF_vars(LeaseHandlerStep(c))

\* One lease on unit U1 and the M-Pesa payments of its tenant while time
\* passes: the token is fetched, cached, used and left to expire.
TokenNext ==
    \/ \E c \in Calls : CreateLeaseBegin(c, "LL1", "T1", "U1")
    \/ \E c \in Calls : CreateLeaseFindExisting(c)
    \/ \E c \in Calls : CreateLeaseInsert(c)
    \/ \E c \in Calls : CreateLeaseUpdateUnit(c)
    \/ \E c \in Calls : CreateLeaseCommit(c)
    \/ \E c \in Calls : CreateLeaseFetch(c)
    \/ \E c \in Calls :
          CreatePaymentBegin(c, "T1", "T1", "U1", "mpesa", "254700000000")
    \/ \E c \in Calls : CreatePaymentInsert(c)
    \/ \E c \in Calls : CreatePaymentTokenRequest(c)
    \/ \E c \in Calls : CreatePaymentTokenResponse(c)
    \/ \E c \in Calls : CreatePaymentPush(c)
    \/ \E c \in Calls : CreatePaymentPushResponse(c)
    \/ \E c \in Calls : CreatePaymentMarkFailed(c)
    \/ \E c \in Calls : Return(c)
    \/ Tick

SpecToken == Init /\ [][TokenNext]_vars

\* The steps createLease and createPayment take by themselves; the answers
\* of the gateway are not among them.
PaymentHandlerStep(c) ==
    \/ CreateLeaseFindExisting(c)
    \/ CreateLeaseInsert(c)
    \/ CreateLeaseUpdateUnit(c)
    \/ CreateLeaseCommit(c)
    \/ CreateLeaseFetch(c)
    \/ CreatePaymentInsert(c)
    \/ CreatePaymentTokenRequest(c)
    \/ CreatePaymentMarkFailed(c)
    \/ Return(c)

\* Time goes on and every handler takes its own steps; the gateway is not
\* bound to answer, and nobody is bound to send a request.
SpecTimeout ==
    /\ Init
    /\ [][TokenNext]_vars
    /\ WF_vars(Tick)
    /\ \A c \in Slots : WF_vars(PaymentHandlerStep(c))

----------------------------------------------------------------------------
(* Properties of the lease lifecycle *)

StepOf(c, op) == calls[c].op = op /\ calls'[c] # calls[c]

\* C1: in every reachable state each unit has at most one committed Lease
\* row with status active, whatever the interleaving of createLease and
\* terminateLease calls.
OneActiveLeasePerUnit ==
    \A u \in Units : Cardinality(ActiveLeasesOf(u)) <= 1

\* A createLease lost at the unique index while the unit's one active
\* lease stands.
OneActiveLeasePerUnitWitness ==
    \E c \in Calls :
        /\ calls[c].error = "SequelizeUniqueConstraintError"
        /\ Cardinality(ActiveLeasesOf(calls[c].unitId)) = 1

\* C2: the createLease that loses the race at the unique index is answered
\* with a conflict outcome (4xx), which is not the outcome of a generic
\* failure, while the other call succeeds.
RaceLoserGetsConflict ==
    \A c \in Calls :
        (/\ calls[c].op = "createLease"
         /\ calls[c].pc = "done"
         /\ calls[c].error = "SequelizeUniqueConstraintError")
        => /\ calls[c].resp.code \in {400, 409}
           /\ calls[c].resp # RespCreateFailed

CreateRejected(call) ==
    /\ call.op = "createLease"
    /\ call.pc = "done"
    /\ \/ call.resp = RespActiveLeaseExists
       \/ call.error = "SequelizeUniqueConstraintError"

\* C3: a createLease rejected because the unit has an active lease (by the
\* pre-check or by the unique index) changes no Unit row and no Lease row:
\* its transaction ends rolled back, a transaction never ends both ways,
\* and committed rows change in no step of createLease but the commit.
RejectedCreateLeavesRows ==
    /\ [](\A c \in Calls : CreateRejected(calls[c]) => calls[c].txn = "rollback")
    /\ [][\A c \in Calls :
            /\ calls[c].txn = "commit" => calls'[c].txn \in {"commit", "none"}
            /\ (StepOf(c, "createLease") /\ (units' # units \/ leases' # leases))
               => calls[c].txn = "open" /\ calls'[c].txn = "commit"]_vars

\* Both kinds of rejection have happened on a unit that stays occupied
\* under its one lease.
RejectedCreateLeavesRowsWitness ==
    \E c, d \in Calls :
        /\ calls[c].op = "createLease" /\ calls[d].op = "createLease"
        /\ calls[c].resp = RespActiveLeaseExists
        /\ calls[d].error = "SequelizeUniqueConstraintError"
        /\ units[calls[c].unitId] = "occupied"
        /\ Len(leases) = 1

\* C4: createLease is atomic.  Its commit makes the new active Lease and
\* the occupied Unit visible in one step, no other step of it changes a
\* committed row, no existing Lease row is rewritten, and the 201 response
\* is sent only after the commit.
CreateLeaseAtomic ==
    /\ [](\A c \in Calls :
            calls[c].resp = RespLeaseCreated => calls[c].txn = "commit")
    /\ [][\A c \in Calls : StepOf(c, "createLease") =>
            LET committing == calls[c].txn = "open" /\ calls'[c].txn = "commit"
                n == Len(leases)
            IN  /\ committing <=> Len(leases') = n + 1
                /\ ~committing => units' = units /\ leases' = leases
                /\ committing =>
                       /\ leases'[n + 1].status = "active"
                       /\ leases'[n + 1].unitId = calls[c].unitId
                       /\ leases'[n + 1].tenantId = calls[c].tenantId
                       /\ units'[calls[c].unitId] = "occupied"
                       /\ \A i \in 1..n : leases'[i] = leases[i]]_vars

\* Scenario A: a createLease on a vacant unit has answered 201; its lease
\* is active and the unit occupied.
CreateLeaseAtomicWitness ==
    \E c \in Calls :
        /\ calls[c].resp = RespLeaseCreated
        /\ calls[c].lease.id \in LeaseIds
        /\ leases[calls[c].lease.id].status = "active"
        /\ units[calls[c].unitId] = "occupied"

\* C5: the commit of terminateLease leaves the lease a createLease made at
\* status terminated with a moveOutDate that is not null (the supplied
\* date, or the time of the update when none was supplied) and its unit
\* vacant, and only then is the 200 response sent.
TerminateRoundTrip ==
    /\ [](\A c \in Calls :
            calls[c].resp = RespLeaseTerminated => calls[c].txn = "commit")
    /\ [][\A c \in Calls :
            (/\ StepOf(c, "terminateLease")
             /\ calls[c].txn = "open" /\ calls'[c].txn = "commit")
            => LET i == calls[c].lease.id
               IN  /\ leases'[i].status = "terminated"
                   /\ leases'[i].moveOutDate # NoDate
                   /\ IF calls[c].moveOutDate # NoDate
                      THEN leases'[i].moveOutDate = calls[c].moveOutDate
                      ELSE leases'[i].moveOutDate \in 1..now
                   /\ units'[leases[i].unitId] = "vacant"]_vars

\* A lease was terminated with no moveOutDate in the body.
TerminateRoundTripWitness ==
    \E c \in Calls :
        /\ calls[c].resp = RespLeaseTerminated
        /\ leases[calls[c].lease.id].status = "terminated"
        /\ leases[calls[c].lease.id].moveOutDate \in 1..now
        /\ units[calls[c].unitId] = "vacant"

\* C6: terminateLease on a lease it finds not active answers the
\* invalid-state outcome (400), the not-found outcome (404) is kept for a
\* lease it does not find, and the rejected call changes no Lease and no
\* Unit row.
TerminateNonActiveRejected ==
    /\ [](\A c \in Calls :
            (calls[c].op = "terminateLease" /\ calls[c].pc = "done") =>
                /\ (calls[c].lease # NoLease /\ calls[c].lease.status # "active")
                   => /\ calls[c].resp = RespNotActive
                      /\ calls[c].resp.code # RespLeaseNotFound.code
                      /\ calls[c].txn = "rollback"
                /\ calls[c].resp = RespLeaseNotFound => calls[c].lease = NoLease)
    /\ [][\A c \in Calls :
            (calls'[c].op = "terminateLease" /\ calls'[c] # calls[c]
             /\ calls'[c].resp \in {RespNotActive, RespLeaseNotFound})
            => units' = units /\ leases' = leases]_vars

\* A terminateLease of a terminated lease was answered 400.
TerminateNonActiveRejectedWitness ==
    \E c \in Calls :
        /\ calls[c].op = "terminateLease"
        /\ calls[c].resp = RespNotActive
        /\ calls[c].lease.status = "terminated"
        /\ leases[calls[c].lease.id].status = "terminated"

\* C7: no Lease row ever changes its status to pending, none changes its
\* status once it is terminated or expired, and no row is inserted pending.
LeaseStatusMonotone ==
    [][/\ \A i \in 1..Len(leases) :
             leases'[i].status # leases[i].status
             => /\ leases'[i].status # "pending"
                /\ leases[i].status \notin {"terminated", "expired"}
       /\ \A i \in (Len(leases) + 1)..Len(leases') :
             leases'[i].status # "pending"]_vars

\* A terminateLease that read the lease active is about to commit its
\* update over the row another call has terminated meanwhile.
LeaseStatusMonotoneWitness ==
    \E c \in Calls :
        /\ At(c, "terminateLease", "commit")
        /\ leases[calls[c].lease.id].status = "terminated"

----------------------------------------------------------------------------
(* Properties of payments against leases *)

ActiveLeaseFor(tenantId, unitId) ==
    \E i \in LeaseIds : /\ leases[i].tenantId = tenantId
                         /\ leases[i].unitId = unitId
                         /\ leases[i].status = "active"

\* C8: a createPayment for a (tenantId, unitId) with no active Lease is
\* rejected and inserts no Payment row, with the no-active-lease error
\* whenever the caller passes the permission checks; so every Payment row
\* names a lease of its own tenant and unit.
NoActiveLeaseRejected ==
    /\ [](\A p \in PaymentIds :
            /\ payments[p].leaseId \in LeaseIds
            /\ leases[payments[p].leaseId].tenantId = payments[p].tenantId
            /\ leases[payments[p].leaseId].unitId = payments[p].unitId)
    /\ [][\A c \in Calls :
            (/\ calls[c].op = "idle"
             /\ calls'[c].op = "createPayment"
             /\ ~ActiveLeaseFor(calls'[c].tenantId, calls'[c].unitId))
            => /\ calls'[c].pc = "done"
               /\ calls'[c].resp.code >= 400
               /\ calls'[c].resp.code \notin {403, 404}
                  => calls'[c].resp = RespNoActiveLease
               /\ calls'[c].payment = 0
               /\ payments' = payments]_vars

\* Scenario D: the lease of T1 on U1 is terminated, and a later
\* createPayment for T1 and U1 was rejected for want of an active lease.
NoActiveLeaseRejectedWitness ==
    \E c \in Calls :
        /\ calls[c].op = "createPayment"
        /\ calls[c].resp = RespNoActiveLease
        /\ calls[c].tenantId = "T1" /\ calls[c].unitId = "U1"
        /\ \E i \in LeaseIds : /\ leases[i].tenantId = "T1"
                               /\ leases[i].unitId = "U1"
                               /\ leases[i].status = "terminated"
        /\ ~ActiveLeaseFor("T1", "U1")

\* C9: at the moment a Payment row is inserted, the lease it references is
\* active, under any interleaving of createPayment with terminateLease.
PaymentLeaseActiveAtInsert ==
    [][\A p \in (Len(payments) + 1)..Len(payments') :
          leases[payments'[p].leaseId].status = "active"]_vars

\* C10: while two Payments are pending and a success callback arrives for
\* the checkout-request id of one of them, the callback changes that
\* Payment and no other, whichever is the more recent, and it changes at
\* most one row.
CallbackFinalizesItsPayment ==
    [][\A c \in Calls :
          (/\ StepOf(c, "handleMpesaCallback")
           /\ calls[c].success
           /\ payments[gateway[calls[c].checkoutRequestId]].status = "pending"
           /\ \E j \in PaymentIds \ {gateway[calls[c].checkoutRequestId]} :
                  payments[j].status = "pending")
          => /\ \A i \in PaymentIds :
                   payments'[i] # payments[i]
                   => i = gateway[calls[c].checkoutRequestId]
             /\ Cardinality({i \in PaymentIds : payments'[i] # payments[i]}) <= 1]_vars

----------------------------------------------------------------------------
(* Properties of the gateway's requests and callbacks *)

\* C11: once the gateway call of createPayment has returned successfully,
\* the Payment row of the call carries, as its correlation identifier, the
\* CheckoutRequestID the gateway returned for the request.
PaymentCarriesCheckoutRequestId ==
    \A c \in Calls :
        (calls[c].op = "createPayment" /\ calls[c].resp = RespPaymentInitiated)
        => payments[calls[c].payment].mpesaTransactionId
               = CheckoutRequestID(calls[c].checkoutRequestId)

\* C12: a successful callback delivered again changes nothing but the
\* Payment that already carries its receipt, which it leaves successful with
\* that receipt, also while other Payments are pending; callbacks insert no
\* Payment row; no two Payments carry one receipt, and a successful Payment
\* carries a receipt.
CallbackIdempotent ==
    /\ [](\A i \in PaymentIds :
            /\ payments[i].status = "successful"
               => payments[i].mpesaTransactionId.kind = "receipt"
            /\ \A j \in PaymentIds \ {i} :
                  payments[i].mpesaTransactionId # payments[j].mpesaTransactionId)
    /\ [][\A c \in Calls :
            StepOf(c, "handleMpesaCallback")
            => /\ Len(payments') = Len(payments)
               /\ (\E j \in PaymentIds :
                      payments[j].mpesaTransactionId = calls[c].transactionId)
                  => \A i \in PaymentIds :
                        payments'[i] # payments[i]
                        => /\ payments[i].mpesaTransactionId = calls[c].transactionId
                           /\ payments'[i].mpesaTransactionId = calls[c].transactionId
                           /\ payments'[i].status = "successful"]_vars

\* The second delivery of a successful callback found another Payment
\* pending, was refused the receipt that the first Payment carries, and left
\* the other Payment pending.
CallbackIdempotentWitness ==
    \E c \in Calls, i, j \in PaymentIds :
        /\ calls[c].op = "handleMpesaCallback"
        /\ calls[c].pc = "done"
        /\ calls[c].success
        /\ calls[c].error = "SequelizeUniqueConstraintError"
        /\ calls[c].payment = j
        /\ i # j
        /\ payments[i].status = "successful"
        /\ payments[i].mpesaTransactionId = calls[c].transactionId
        /\ payments[j].status = "pending"

\* C13: a Payment whose status is successful or failed is changed by no
\* step of any operation, so that each Payment changes status at most once,
\* from pending to a terminal status.
TerminalPaymentUntouched ==
    [][\A i \in PaymentIds :
          payments[i].status \in {"successful", "failed"}
          => payments'[i] = payments[i]]_vars

\* C14: every delivery of a callback is answered with the fixed
\* acknowledgment, HTTP 200 with ResultCode 0, whatever the handler found.
CallbackAlwaysAcknowledged ==
    \A c \in Calls :
        (calls[c].op = "handleMpesaCallback" /\ calls[c].pc = "done")
        => calls[c].resp = RespCallbackAck

\* C15: a callback whose x-safaricom-signature is not the HMAC of its
\* body under the shared secret changes no Payment row.
ForgedCallbackChangesNothing ==
    [][\A c \in Calls :
          (StepOf(c, "handleMpesaCallback") /\ calls[c].signature # "hmac")
          => payments' = payments]_vars

PendingPayments == {i \in PaymentIds : payments[i].status = "pending"}

\* C16: a success callback that arrives while the Payment of its request is
\* the one pending Payment is applied to that Payment, and its update sets
\* the Payment to successful and records the receipt number of the callback
\* on it, leaving the other rows as they are.
SuccessCallbackFinalizes ==
    [][\A c \in Calls :
          /\ (/\ calls[c].op = "idle"
               /\ calls'[c].op = "handleMpesaCallback"
               /\ calls'[c].success
               /\ PendingPayments = {gateway[calls'[c].checkoutRequestId]})
              => /\ calls'[c].pc = "updatePayment"
                 /\ calls'[c].payment = gateway[calls'[c].checkoutRequestId]
                 /\ calls'[c].transactionId
                        = ReceiptNumber(calls'[c].checkoutRequestId)
          /\ (/\ StepOf(c, "handleMpesaCallback")
               /\ calls[c].pc = "updatePayment"
               /\ calls[c].payment = gateway[calls[c].checkoutRequestId]
               /\ \A j \in PaymentIds \ {calls[c].payment} :
                      payments[j].mpesaTransactionId # calls[c].transactionId)
              => /\ payments'[calls[c].payment].status = "successful"
                 /\ payments'[calls[c].payment].mpesaTransactionId
                        = calls[c].transactionId
                 /\ \A j \in PaymentIds \ {calls[c].payment} :
                        payments'[j] = payments[j]]_vars

\* Scenario C: the one Payment there is was pending, and the success
\* callback for its request has set it to successful with the receipt.
SuccessCallbackFinalizesWitness ==
    \E c \in Calls :
        /\ calls[c].op = "handleMpesaCallback"
        /\ calls[c].pc = "done"
        /\ calls[c].success
        /\ calls[c].error = "none"
        /\ Len(payments) = 1
        /\ calls[c].payment = 1
        /\ gateway[calls[c].checkoutRequestId] = 1
        /\ payments[1].status = "successful"
        /\ payments[1].mpesaTransactionId = ReceiptNumber(calls[c].checkoutRequestId)

\* C17: a callback that reports failure, a ResultCode other than 0, for a
\* request whose Payment is pending sets that Payment to failed.
FailureCallbackMarksFailed ==
    [][\A c \in Calls :
          (/\ calls[c].op = "idle"
           /\ calls'[c].op = "handleMpesaCallback"
           /\ calls'[c].pc = "done"
           /\ calls'[c].resp = RespCallbackAck
           /\ ~calls'[c].success
           /\ payments[gateway[calls'[c].checkoutRequestId]].status = "pending")
          => payments'[gateway[calls'[c].checkoutRequestId]].status = "failed"]_vars

SingleFlightTokenRefresh ==
    Cardinality({c \in Calls : At(c, "createPayment", "tokenResponse")}) <= 1

----------------------------------------------------------------------------
(* Properties of the ownership checks *)

\* C20: a landlord's createLease for a unit of another landlord's property,
\* or for a tenant id that names no tenant, and a landlord's terminateLease
\* of a lease that is not theirs, are answered not-found in their first
\* step; and only a createLease of the unit's landlord for a tenant, or a
\* terminateLease of the lease's landlord, changes a Lease or Unit row or is
\* answered with success.
OwnershipVerified ==
    [][\A c \in Calls :
          /\ \A user \in Landlords, tenantId \in LeaseTenantIds, unitId \in Units :
                (/\ CreateLeaseBegin(c, user, tenantId, unitId)
                 /\ PropertyLandlord(unitId) # user \/ tenantId \notin Tenants)
                => /\ calls'[c].pc = "done"
                   /\ calls'[c].resp \in {RespUnitNotFound, RespTenantNotFound}
                   /\ calls'[c].resp.code = 404
          /\ \A user \in Landlords, leaseId \in 1..MaxLeases, body \in TerminateBodies :
                (/\ TerminateLeaseBegin(c, user, leaseId, body.moveOutDate,
                                        body.terminationReason)
                 /\ leaseId \notin LeaseIds \/ leases[leaseId].landlordId # user)
                => /\ calls'[c].pc = "done"
                   /\ calls'[c].resp = RespLeaseNotFound
                   /\ calls'[c].resp.code = 404
          /\ (/\ StepOf(c, "createLease")
               /\ \/ units' # units
                  \/ leases' # leases
                  \/ calls'[c].resp = RespLeaseCreated)
              => /\ calls[c].user \in Landlords
                 /\ PropertyLandlord(calls[c].unitId) = calls[c].user
                 /\ calls[c].tenantId \in Tenants
          /\ (/\ StepOf(c, "terminateLease")
               /\ \/ units' # units
                  \/ leases' # leases
                  \/ calls'[c].resp = RespLeaseTerminated)
              => /\ calls[c].user \in Landlords
                 /\ calls[c].lease.id \in LeaseIds
                 /\ leases[calls[c].lease.id].landlordId = calls[c].user]_vars

\* Landlord LL1 has asked for a lease on unit U2 of LL2's property and was
\* answered not-found; a terminateLease was answered not-found as well;
\* every lease there is belongs to LL1, and U1 is occupied under one.
OwnershipVerifiedWitness ==
    \E c, d \in Calls :
        /\ calls[c].op = "createLease"
        /\ calls[c].resp = RespUnitNotFound
        /\ calls[c].unitId = "U2"
        /\ calls[d].op = "terminateLease"
        /\ calls[d].resp = RespLeaseNotFound
        /\ Len(leases) = MaxLeases
        /\ \A i \in LeaseIds : leases[i].landlordId = "LL1"
        /\ \E i \in LeaseIds : leases[i].status = "active"
        /\ units["U1"] = "occupied"

----------------------------------------------------------------------------
(* Properties of the token cache *)

\* The gateway honours a token for the 55 minutes the service caches it and
\* a margin of 5 minutes, which is shorter than a step of the clock.
TokenExpiredAtGateway(token, t) == t > token.issuedAt + TokenLifetime

\* C21: no push request goes out with an expired token.  The recorded
\* expiry is the token's issue time plus the 55 minutes; a push request
\* built on the cached token goes out strictly before that expiry, and any
\* other push request follows a refresh and carries the token just issued.
NoExpiredTokenUsed ==
    /\ [](mpesa.accessToken # NoToken
           => mpesa.tokenExpiry = mpesa.accessToken.issuedAt + TokenLifetime)
    /\ [][\A c \in Calls :
            /\ (/\ At(c, "createPayment", "stkPush")
                 /\ calls'[c].pc \in {"pushResponse", "markFailed"})
                => /\ mpesa.accessToken # NoToken
                   /\ now < mpesa.accessToken.issuedAt + TokenLifetime
                   /\ ~TokenExpiredAtGateway(mpesa.accessToken, now)
            /\ (/\ At(c, "createPayment", "stkPush")
                 /\ \/ mpesa.accessToken = NoToken
                    \/ now >= mpesa.tokenExpiry)
                => calls'[c].pc \in {"stkPush", "tokenResponse"}
            /\ (/\ At(c, "createPayment", "tokenResponse")
                 /\ calls'[c].pc = "pushRequest")
                => /\ mpesa'.accessToken = AccessToken(now)
                   /\ ~TokenExpiredAtGateway(mpesa'.accessToken, now)]_vars

\* A token was cached at the first instant; at the next, the cache's expiry
\* has come, and a createPayment has asked the token endpoint again
\* instead of using it.
NoExpiredTokenUsedWitness ==
    \E c \in Calls :
        /\ At(c, "createPayment", "tokenResponse")
        /\ mpesa.accessToken # NoToken
        /\ now >= mpesa.tokenExpiry

----------------------------------------------------------------------------
(* Properties of the passing of time *)

\* C22: an active Lease whose endDate has passed leaves status active in
\* the end, expired unless it is terminated, and its unit is then vacant.
ExpiredLeaseSwept ==
    \A i \in 1..MaxLeases :
        (i \in LeaseIds /\ leases[i].status = "active" /\ now > leases[i].endDate)
        ~> (/\ i \in LeaseIds
            /\ \/ leases[i].status = "terminated"
               \/ leases[i].status = "expired" /\ units[leases[i].unitId] = "vacant")

\* The Payment is pending and the createPayment that inserted it still
\* waits for the gateway to answer its token or push request.
Unacknowledged(p) ==
    /\ p \in PaymentIds
    /\ payments[p].status = "pending"
    /\ \E c \in Calls :
          /\ calls[c].op = "createPayment"
          /\ calls[c].payment = p
          /\ calls[c].pc \in {"stkPush", "tokenResponse", "pushRequest",
                               "pushResponse"}

\* C23: every Payment of an M-Pesa createPayment leaves, in the end, the
\* state of being pending with the gateway's answer outstanding, whether or
\* not the gateway ever answers.
PendingPaymentResolved ==
    \A p \in 1..MaxPayments : Unacknowledged(p) ~> ~Unacknowledged(p)

----------------------------------------------------------------------------
(* Properties of concurrent lease calls *)

\* C24: whenever no createLease or terminateLease is in progress, a unit
\* is occupied if and only if it has an active Lease.
QuiescentUnitsMatchLeases ==
    (\A c \in Calls : calls[c].pc \in {"idle", "done"})
    => \A u \in Units : units[u] = "occupied" <=> ActiveLeasesOf(u) # {}

\* C25: of the terminateLease calls on one active lease exactly one
\* succeeds: a call is answered with success only if its commit takes the
\* lease out of status active, and the moveOutDate and terminationReason
\* of a terminated lease are not written again.
TerminateExactlyOnce ==
    [][/\ \A c \in Calls :
            (StepOf(c, "terminateLease") /\ calls'[c].resp = RespLeaseTerminated)
            => leases[calls[c].lease.id].status = "active"
       /\ \A i \in LeaseIds :
            leases[i].status = "terminated"
            => /\ leases'[i].moveOutDate = leases[i].moveOutDate
               /\ leases'[i].terminationReason = leases[i].terminationReason]_vars

----------------------------------------------------------------------------
(* Properties of concurrent callbacks *)

\* C26: two success callbacks with different receipt numbers that are
\* handled at once while two Payments are pending are matched to different
\* Payments, so that each finalizes one and none is left pending.
ConcurrentCallbacksDistinct ==
    \A c, d \in Calls :
        (/\ c # d
         /\ At(c, "handleMpesaCallback", "updatePayment")
         /\ At(d, "handleMpesaCallback", "updatePayment")
         /\ calls[c].transactionId # calls[d].transactionId
         /\ Cardinality(PendingPayments) >= 2)
        => calls[c].payment # calls[d].payment

\* C27: a callback changes a Payment only if the gateway has taken a push
\* request for that Payment and the request has returned to createPayment:
\* never a Payment recorded with another payment method, nor one whose
\* push request is still on its way.
CallbackFinalizesPushedPayment ==
    [][\A c \in Calls, p \in PaymentIds :
          (StepOf(c, "handleMpesaCallback") /\ payments'[p] # payments[p])
          => /\ \E k \in 1..Len(gateway) : gateway[k] = p
             /\ ~Unacknowledged(p)]_vars

----------------------------------------------------------------------------
(* Properties of the handlers' transactions and responses *)

\* C28: when createLease or terminateLease has returned, the transaction
\* it opened is committed or rolled back.
TransactionEnded ==
    \A c \in Calls :
        (calls[c].op \in {"createLease", "terminateLease"} /\ calls[c].pc = "done")
        => calls[c].txn \in {"commit", "rollback"}

\* C29: a createLease that has returned has sent a response, and a
\* failure response only if its transaction did not commit a Lease row.
CreateLeaseResponds ==
    \A c \in Calls :
        (calls[c].op = "createLease" /\ calls[c].pc = "done")
        => /\ calls[c].resp # NoResp
           /\ calls[c].resp.code >= 400 => calls[c].txn # "commit"

----------------------------------------------------------------------------
(* assignTenantToUnit, removeTenantFromUnit, updateUnit *)

RespAssignDenied ==
    [code |-> 403,
     message |-> "Access denied. Only landlords can assign tenants to units."]
RespAssignTenantNotFound == [code |-> 404, message |-> "Tenant not found."]
RespUnitOccupied == [code |-> 400, message |-> "Unit is already occupied."]
RespTenantAssigned ==
    [code |-> 200, message |-> "Tenant assigned to unit successfully"]
RespAssignFailed == [code |-> 500, message |-> "Failed to assign tenant to unit"]

RespRemoveDenied ==
    [code |-> 403,
     message |-> "Access denied. Only landlords can remove tenants from units."]
RespTenantRemoved ==
    [code |-> 200, message |-> "Tenant removed from unit successfully"]
RespRemoveFailed ==
    [code |-> 500, message |-> "Failed to remove tenant from unit"]

RespUpdateUnitDenied ==
    [code |-> 403, message |-> "Access denied. Only landlords can update units."]
RespUnitUpdated == [code |-> 200, message |-> "Unit updated successfully"]
RespUpdateUnitFailed == [code |-> 500, message |-> "Failed to update unit"]

\* Unit.findOne({ where: { id }, include: [{ model: Property, where:
\* { landlordId: req.user.id } }] })
FindUnit(unitId, user) == PropertyLandlord(unitId) = user

\* The role check, the tenant and unit lookups and the check of the status
\* read with the unit.
AssignTenantToUnitBegin(c, user, tenantId, unitId) ==
    /\ calls[c].op = "idle"
    /\ LET call == [IdleCall EXCEPT !.op = "assignTenantToUnit", !.user = user,
                                    !.tenantId = tenantId, !.unitId = unitId]
       IN  calls' = [calls EXCEPT ![c] =
               IF UserRole(user) # "landlord"
               THEN Finish(call, RespAssignDenied)
               ELSE IF tenantId \notin Users \/ UserRole(tenantId) # "tenant"
               THEN Finish(call, RespAssignTenantNotFound)
               ELSE IF ~FindUnit(unitId, user)
               THEN Finish(call, RespUnitNotFound)
               ELSE IF units[unitId] = "occupied"
               THEN Finish(call, RespUnitOccupied)
               ELSE [call EXCEPT !.pc = "unitUpdate", !.status = "occupied"]]
    /\ UNCHANGED <<units, leases, payments, gateway, now, mpesa>>

\* The role check and the unit lookup; no lease is read.
RemoveTenantFromUnitBegin(c, user, tenantId, unitId) ==
    /\ calls[c].op = "idle"
    /\ LET call == [IdleCall EXCEPT !.op = "removeTenantFromUnit", !.user = user,
                                    !.tenantId = tenantId, !.unitId = unitId]
       IN  calls' = [calls EXCEPT ![c] =
               IF UserRole(user) # "landlord"
               THEN Finish(call, RespRemoveDenied)
               ELSE IF ~FindUnit(unitId, user)
               THEN Finish(call, RespUnitNotFound)
               ELSE [call EXCEPT !.pc = "unitUpdate", !.status = "vacant"]]
    /\ UNCHANGED <<units, leases, payments, gateway, now, mpesa>>

\* The status field of a PUT /api/units/:id body as unitSchema.update lets
\* it through: absent, or any of the four statuses.
UpdateUnitBodies == UnitStatuses \cup {"none"}

UpdateUnitBegin(c, user, id, status) ==
    /\ calls[c].op = "idle"
    /\ LET call == [IdleCall EXCEPT !.op = "updateUnit", !.user = user,
                                    !.unitId = id]
       IN  calls' = [calls EXCEPT ![c] =
               IF UserRole(user) # "landlord"
               THEN Finish(call, RespUpdateUnitDenied)
               ELSE IF ~FindUnit(id, user)
               THEN Finish(call, RespUnitNotFound)
               ELSE [call EXCEPT !.pc = "unitUpdate", !.status = status]]
    /\ UNCHANGED <<units, leases, payments, gateway, now, mpesa>>

UnitHandlers == {"assignTenantToUnit", "removeTenantFromUnit", "updateUnit"}

UnitUpdated(op) ==
    CASE op = "assignTenantToUnit" -> RespTenantAssigned
      [] op = "removeTenantFromUnit" -> RespTenantRemoved
      [] OTHER -> RespUnitUpdated

UnitUpdateFailed(op) ==
    CASE op = "assignTenantToUnit" -> RespAssignFailed
      [] op = "removeTenantFromUnit" -> RespRemoveFailed
      [] OTHER -> RespUpdateUnitFailed

\* unit.update(...) outside any transaction, and the success response. The
\* UPDATE waits for a transaction that has written the row.
UnitUpdate(c) ==
    /\ calls[c].op \in UnitHandlers
    /\ calls[c].pc = "unitUpdate"
    /\ ~UnitRowLocked(c, calls[c].unitId)
    /\ units' = [units EXCEPT ![calls[c].unitId] =
           IF calls[c].status # "none" THEN calls[c].status ELSE @]
    /\ calls' = [calls EXCEPT ![c] =
           Finish([calls[c] EXCEPT !.status = "none"], UnitUpdated(calls[c].op))]
    /\ UNCHANGED <<leases, payments, gateway, now, mpesa>>

\* unit.update throws: the catch block answers 500.
UnitUpdateThrow(c) ==
    /\ calls[c].op \in UnitHandlers
    /\ calls[c].pc = "unitUpdate"
    /\ calls' = [calls EXCEPT ![c] =
           Finish([calls[c] EXCEPT !.status = "none",
                                   !.error = "SequelizeDatabaseError"],
                  UnitUpdateFailed(calls[c].op))]
    /\ UNCHANGED <<units, leases, payments, gateway, now, mpesa>>

\* One request at a time: the lease and unit handlers called in any order,
\* each running to its response before the next begins.
UnitsSlots == {"c1"}

UnitsInit == InitWith(UnitsSlots)

UnitsNext ==
    \/ LeaseNext
    \/ \E c \in Calls, user \in Users, tenantId \in LeaseTenantIds, unitId \in Units :
          AssignTenantToUnitBegin(c, user, tenantId, unitId)
    \/ \E c \in Calls, user \in Users, tenantId \in LeaseTenantIds, unitId \in Units :
          RemoveTenantFromUnitBegin(c, user, tenantId, unitId)
    \/ \E c \in Calls, user \in Users, id \in Units, status \in UpdateUnitBodies :
          UpdateUnitBegin(c, user, id, status)
    \/ \E c \in Calls : UnitUpdate(c)
    \/ \E c \in Calls : UnitUpdateThrow(c)

SpecUnits == UnitsInit /\ [][UnitsNext]_vars

----------------------------------------------------------------------------
(* Properties of the unit handlers *)

\* C30: after any sequence of assignTenantToUnit, removeTenantFromUnit,
\* updateUnit, createLease and terminateLease, no unit is vacant while it
\* has an active Lease and none is occupied while it has no active Lease.
UnitStatusAgreesWithLeases ==
    (\A c \in Calls : calls[c].pc \in {"idle", "done"})
    => \A u \in Units :
          /\ units[u] = "vacant" => ActiveLeasesOf(u) = {}
          /\ units[u] = "occupied" => ActiveLeasesOf(u) # {}

====
